---- MODULE Spec2Model ----
(***************************************************************************)
(* A model of nmigen/fhdl/dsl.py: the Module builder that accumulates      *)
(* assignments, If/Elif/Else chains and Case scopes and lowers them into   *)
(* Switch statements.                                                      *)
(*                                                                         *)
(* Python lists are modelled as sequences.  A string pattern is modelled   *)
(* as the sequence of its characters, leftmost character first.  An        *)
(* OrderedDict is a sequence of [key, val] records with distinct keys.     *)
(* None is modelled by a sentinel of the type of the slot it sits in.      *)
(***************************************************************************)
EXTENDS Integers, Sequences, FiniteSets, TLC

\* ------------------------------------------------------------------ bounds

\* Scopes (If, Elif, Else, Case) opened, and Assign objects handed to the
\* builder, in one run over If, Elif and Else.
MaxScopes == 3
MaxAssigns == 2

\* The same in one run over Case.
MaxCaseScopes == 3
MaxCaseAssigns == 1

\* The same in one run over the driver map.
MaxDriveScopes == 1
MaxDriveAssigns == 2

\* Runs over the submodules: registered submodules.
MaxSubmodules == 3

\* Runs with bodies that raise: scopes opened, Assign objects created.
MaxAbortScopes == 3
MaxAbortAssigns == 1

\* ------------------------------------------------------------- input sets

Signals == {"s1", "s2"}

\* cd_name of a domain handle: None (d.comb) or the name of a clocked domain.
NoDomain == "None"
Domains == {NoDomain, "sync", "pix"}

\* The left-hand sides an appended Assign may have (_lhs_signals(), in order).
LhsChoices == {<<"s1">>, <<"s2", "s1">>}

\* Values registered as submodules: two that have get_fragment, one that has
\* not.
Submodules == {"a", "b"}
NotSubmodules == {"x"}

\* Names a submodule is registered under by m.submodules.<name> = ...
NoName == "None"
SubmoduleNames == {"n1", "n2"}

\* Values put in a domain slot by m.d.<name> = value: the handle m.d.<other>
\* of a domain, or a value that is no _ModuleBuilderDomain.
NotHandle == [handle |-> FALSE, cd_name |-> NoDomain]
SlotValues == {[handle |-> TRUE, cd_name |-> d] : d \in {NoDomain, "sync"}}
              \cup {NotHandle}
SlotNames == {"comb", "sync"}

\* Conditions handed to If and Elif: values one bit and two bits wide.
NoCond == [op |-> "None", name |-> "None", width |-> 0]
Conds == {[op |-> "Signal", name |-> "c1", width |-> 1],
          [op |-> "Signal", name |-> "c2", width |-> 2]}

\* Test expressions handed to Case: obj tells two objects apart, name and
\* width are the structure.  ta and tb are two objects of one structure.
Tests == {[op |-> "Signal", obj |-> "ta", name |-> "t", width |-> 1],
          [op |-> "Signal", obj |-> "tb", name |-> "t", width |-> 1],
          [op |-> "Signal", obj |-> "u",  name |-> "u", width |-> 2]}

\* Case values: None (omitted) or a pattern string.
NoValue == <<"None">>
CaseValues == {NoValue, <<"1">>}

\* ------------------------------------------------------- the value layer

\* len(value): the bit width of a value.
RECURSIVE ValueLen(_)
ValueLen(v) ==
    IF v.op = "Signal" THEN v.width
    ELSE IF v.op = "bool" THEN 1
    ELSE IF v.op = "Cat" THEN
        IF v.args = <<>> THEN 0
        ELSE ValueLen(Head(v.args)) + ValueLen([op |-> "Cat", args |-> Tail(v.args)])
    ELSE 0

\* value.bool(): the nonzero test of a value.
Bool(v) == [op |-> "bool", arg |-> v]

\* Cat(tests): the concatenation, first argument at bit 0.
Cat(args) == [op |-> "Cat", args |-> args]

\* ValueKey(test): the structural key of a test expression.
NoKey == [name |-> "None", width |-> 0]
ValueKey(test) == [name |-> test.name, width |-> test.width]

\* Switch(test, cases)
Switch(test, cases) == [type |-> "Switch", test |-> test, cases |-> cases]

\* Assign objects: id is the object's identity.
Assign(id, lhs) == [type |-> "Assign", id |-> id, lhs |-> lhs]

\* A statement that is not an Assign (appended by mistake).
NotAssign == [type |-> "Other"]

\* --------------------------------------------------------- Python helpers

\* ch * n
RECURSIVE Rep(_, _)
Rep(ch, n) == IF n <= 0 THEN <<>> ELSE <<ch>> \o Rep(ch, n - 1)

\* s.rjust(width, fill)
Rjust(s, width, fill) ==
    IF Len(s) >= width THEN s ELSE Rep(fill, width - Len(s)) \o s

\* d[key] = val on an OrderedDict: a key already present keeps its place.
DictSet(d, key, val) ==
    IF \E i \in DOMAIN d : d[i].key = key
    THEN [i \in DOMAIN d |->
             IF d[i].key = key THEN [key |-> key, val |-> val] ELSE d[i]]
    ELSE Append(d, [key |-> key, val |-> val])

MinOf(a, b) == IF a < b THEN a ELSE b

\* ------------------------------------------------------------------ state

VARIABLES
    submodules,         \* Module._submodules
    driving,            \* Module._driving: signal -> cd_name, "absent" if not in
    statements,         \* Module._statements: the active statement list
    stmt_depth,         \* Module._stmt_depth
    stmt_if_cond,       \* Module._stmt_if_cond
    stmt_if_bodies,     \* Module._stmt_if_bodies
    stmt_switch_test,   \* Module._stmt_switch_test: [key, value] or none
    stmt_switch_cases,  \* Module._stmt_switch_cases
    domain_depth,       \* Module.domain._depth
    stack,              \* the open scopes, outermost first, with their locals
    fragment,           \* what lower() returned, once it has
    last,               \* the last call and how it ended
    nScopes,            \* scopes opened so far
    nAssigns,           \* Assign objects created so far
    g_if_scope,         \* history: for each entry of stmt_if_bodies, the scope
                        \* (its id, 0 for the module) the branch was opened in
    g_chain,            \* history: per open level, the branches closed in it
                        \* since the last If was opened or a chain lowered there
    g_run,              \* history: per open level, the Case scopes on one test
                        \* closed in it in a row, with no other call between
    inputs              \* the values the calls of this run draw their arguments
                        \* from; fixed by the initial state

vars == <<submodules, driving, statements, stmt_depth, stmt_if_cond,
          stmt_if_bodies, stmt_switch_test, stmt_switch_cases, domain_depth,
          stack, fragment, last, nScopes, nAssigns, g_if_scope, g_chain, g_run,
          inputs>>

Absent == "absent"
NoTest == [key |-> NoKey, value |-> NoCond]
NoFragment == [built |-> FALSE]

Ok == "ok"
NoSignal == "None"

\* The arguments of a call, for the record kept of it.
NoArgs == [stmts |-> <<>>, cd_name |-> NoDomain, depth |-> 0, cond |-> NoCond,
           test |-> NoCond, value |-> NoValue, slot |-> "", put |-> NotHandle]

\* History of a _flush: the pending state it found (conds, bodies, test,
\* cases), the branches closed in the scope it ran in (chain), the scopes the
\* branches it lowered were opened in (from), the scope whose list it appended
\* to (into), the Case scopes closed in a row in that scope (run).
NoFlushHistory == [flushed |-> FALSE, conds |-> <<>>, bodies |-> <<>>,
                   test |-> [key |-> NoKey, value |-> NoCond], cases |-> <<>>,
                   chain |-> <<>>, from |-> <<>>, into |-> 0, run |-> <<>>]

\* The record kept of a call: err is Ok or the error raised; for a driver
\* conflict the signal and the two domains the message names; emitted is what
\* _flush appended during the call; for a call on m.submodules the values and
\* the name given and the number of values it registered.
Outcome(op, err, args, emitted, history) ==
    [op |-> op, err |-> err, signal |-> NoSignal, cd_name |-> "", cd_curr |-> "",
     args |-> args, emitted |-> emitted, history |-> history,
     subs |-> <<>>, name |-> NoName, added |-> 0]

\* Module.__init__
Created ==
    /\ submodules = <<>>
    /\ driving = [s \in Signals |-> Absent]
    /\ statements = <<>>
    /\ stmt_depth = 0
    /\ stmt_if_cond = <<>>
    /\ stmt_if_bodies = <<>>
    /\ stmt_switch_test = NoTest
    /\ stmt_switch_cases = <<>>
    /\ domain_depth = 0
    /\ stack = <<>>
    /\ fragment = NoFragment
    /\ last = Outcome("init", Ok, NoArgs, <<>>, NoFlushHistory)
    /\ nScopes = 0
    /\ nAssigns = 0
    /\ g_if_scope = <<>>
    /\ g_chain = << <<>> >>
    /\ g_run = << <<>> >>

CondC1 == [op |-> "Signal", name |-> "c1", width |-> 1]
TestU == [op |-> "Signal", obj |-> "u",  name |-> "u", width |-> 2]

\* A run that exercises If, Elif and Else: every condition, one test, omitted
\* case values, assignments to one signal from one domain.
IfInputs ==
    [conds |-> Conds, tests |-> {TestU}, values |-> {NoValue},
     domains |-> {NoDomain}, lhs |-> {<<"s1">>}, lists |-> FALSE,
     others |-> FALSE, abort |-> FALSE, scopes |-> MaxScopes,
     assigns |-> MaxAssigns, submodules |-> 0, slots |-> FALSE]

\* A run that exercises Case: a one-bit and a two-bit test, every case value,
\* one condition.
CaseInputs ==
    [conds |-> {CondC1}, tests |-> {t \in Tests : t.obj # "tb"},
     values |-> CaseValues,
     domains |-> {NoDomain}, lhs |-> {<<"s1">>}, lists |-> FALSE,
     others |-> FALSE, abort |-> FALSE, scopes |-> MaxCaseScopes,
     assigns |-> MaxCaseAssigns, submodules |-> 0, slots |-> FALSE]

\* A run that exercises the driver map: every domain and left-hand side, lists
\* of assignments, statements that are no assignments, one condition and test.
DriveInputs ==
    [conds |-> {CondC1}, tests |-> {TestU}, values |-> {NoValue},
     domains |-> Domains, lhs |-> LhsChoices, lists |-> TRUE,
     others |-> TRUE, abort |-> FALSE, scopes |-> MaxDriveScopes,
     assigns |-> MaxDriveAssigns, submodules |-> 0, slots |-> TRUE]

\* A run that exercises the submodules: no scope, no assignment.
SubInputs ==
    [conds |-> {CondC1}, tests |-> {TestU}, values |-> {NoValue},
     domains |-> {NoDomain}, lhs |-> {<<"s1">>}, lists |-> FALSE,
     others |-> FALSE, abort |-> FALSE, scopes |-> 0, assigns |-> 0,
     submodules |-> MaxSubmodules, slots |-> FALSE]

Init == Created /\ inputs = IfInputs

InitCase == Created /\ inputs = CaseInputs

InitDrive == Created /\ inputs = DriveInputs

InitSub == Created /\ inputs = SubInputs

\* A run in which the body of a scope may raise: one condition, every test.
AbortInputs ==
    [conds |-> {CondC1}, tests |-> Tests, values |-> {NoValue},
     domains |-> {NoDomain}, lhs |-> {<<"s1">>}, lists |-> FALSE,
     others |-> FALSE, abort |-> TRUE, scopes |-> MaxAbortScopes,
     assigns |-> MaxAbortAssigns, submodules |-> 0, slots |-> FALSE]

InitAbort == Created /\ inputs = AbortInputs

\* ------------------------------------------------------------------ _flush

\* A reduction that leaves every condition as it is.
IfCondAsIs(cond) == cond

\* The condition as it enters the test: its nonzero test unless it is one bit
\* wide.
IfCond(cond) == IF ValueLen(cond) # 1 THEN Bool(cond) ELSE cond

\* The loop of _flush over zip(_stmt_if_cond + [None], _stmt_if_bodies).
RECURSIVE IfLoop(_, _, _, _, _)
IfLoop(i, conds, bodies, tests, cases) ==
    IF i > MinOf(Len(conds) + 1, Len(bodies))
    THEN [tests |-> tests, cases |-> cases]
    ELSE LET hasCond == i <= Len(conds)
             if_cond == IF ~hasCond THEN NoCond ELSE IfCond(conds[i])
             tests2  == IF hasCond THEN Append(tests, if_cond) ELSE tests
             match   == IF hasCond
                        THEN Rjust(<<"1">> \o Rep("-", Len(tests2) - 1),
                                   Len(conds), "-")
                        ELSE Rep("-", Len(tests2))
         IN  IfLoop(i + 1, conds, bodies, tests2, DictSet(cases, match, bodies[i]))

\* The Switch a pending conditional chain is lowered to.
IfSwitch(conds, bodies) ==
    LET r == IfLoop(1, conds, bodies, <<>>, <<>>)
    IN  Switch(Cat(r.tests), r.cases)

\* A _flush that forgets to reset the pending conditions and bodies.
FlushKeepingIfChain(conds, bodies, test, cases) ==
    [emits |-> (IF conds # <<>> THEN <<IfSwitch(conds, bodies)>> ELSE <<>>)
               \o (IF test # NoTest THEN <<Switch(test.value, cases)>> ELSE <<>>),
     if_cond |-> conds, if_bodies |-> bodies,
     switch_test |-> NoTest, switch_cases |-> <<>>]

\* A _flush that forgets to reset the pending pattern map.
FlushKeepingCases(conds, bodies, test, cases) ==
    [emits |-> (IF conds # <<>> THEN <<IfSwitch(conds, bodies)>> ELSE <<>>)
               \o (IF test # NoTest THEN <<Switch(test.value, cases)>> ELSE <<>>),
     if_cond |-> <<>>, if_bodies |-> <<>>,
     switch_test |-> NoTest, switch_cases |-> cases]

\* _flush on the pending state given: what it appends to the active list
\* (emits) and the pending state it leaves.
Flush(conds, bodies, test, cases) ==
    [emits |-> (IF conds # <<>> THEN <<IfSwitch(conds, bodies)>> ELSE <<>>)
               \o (IF test # NoTest THEN <<Switch(test.value, cases)>> ELSE <<>>),
     if_cond |-> <<>>, if_bodies |-> <<>>,
     switch_test |-> NoTest, switch_cases |-> <<>>]

\* The pending state left alone.
NoFlush(conds, bodies, test, cases) ==
    [emits |-> <<>>, if_cond |-> conds, if_bodies |-> bodies,
     switch_test |-> test, switch_cases |-> cases]

\* _flush, or not, on the pending state now.
FlushIf(doFlush) ==
    IF doFlush
    THEN Flush(stmt_if_cond, stmt_if_bodies, stmt_switch_test, stmt_switch_cases)
    ELSE NoFlush(stmt_if_cond, stmt_if_bodies, stmt_switch_test, stmt_switch_cases)

\* ----------------------------------------------------------------- scopes

Level == Len(stack) + 1
Top == stack[Len(stack)]
\* The id of the scope whose body is the active list (0: the module).
CurScope == IF stack = <<>> THEN 0 ELSE Top.id
\* The id of the scope the innermost open scope was opened in.
ParentScope == IF Len(stack) <= 1 THEN 0 ELSE stack[Len(stack) - 1].id

\* An open scope: the locals of its context manager (outer is _outer_case) and
\* its history (id, and given: the case value as passed).
Frame(kind, id, outer, cond, test, value, given, depth) ==
    [kind |-> kind, id |-> id, outer |-> outer, cond |-> cond, test |-> test,
     value |-> value, given |-> given, depth |-> depth]

CanOpen == fragment = NoFragment /\ nScopes < inputs.scopes

SetLevel(g, lvl, v) == [g EXCEPT ![lvl] = v]
Pop(s) == SubSeq(s, 1, Len(s) - 1)

\* The history of a _flush in the active scope.
FlushHistory(doFlush) ==
    IF doFlush
    THEN [flushed |-> TRUE, conds |-> stmt_if_cond, bodies |-> stmt_if_bodies,
          test |-> stmt_switch_test, cases |-> stmt_switch_cases,
          chain |-> g_chain[Level], from |-> g_if_scope,
          into |-> CurScope, run |-> g_run[Level]]
    ELSE NoFlushHistory

\* The histories after a call in the active scope that is no Case scope.
AfterCall(doFlush, g) == IF doFlush THEN SetLevel(g, Level, <<>>) ELSE g

Untouched == UNCHANGED <<submodules, fragment, inputs>>

\* with m.If(cond): up to the yield
EnterIf(cond) ==
    /\ CanOpen
    /\ LET f == FlushIf(TRUE) IN
       /\ stack' = Append(stack, Frame("If", nScopes + 1, statements \o f.emits,
                                       cond, NoCond, NoValue, NoValue, 0))
       /\ statements' = <<>>
       /\ stmt_if_cond' = f.if_cond
       /\ stmt_if_bodies' = f.if_bodies
       /\ stmt_switch_test' = f.switch_test
       /\ stmt_switch_cases' = f.switch_cases
       /\ last' = Outcome("EnterIf", Ok, [NoArgs EXCEPT !.cond = cond], f.emits,
                          FlushHistory(TRUE))
    /\ domain_depth' = domain_depth + 1
    /\ nScopes' = nScopes + 1
    /\ g_if_scope' = <<>>
    /\ g_chain' = Append(SetLevel(g_chain, Level, <<>>), <<>>)
    /\ g_run' = Append(SetLevel(g_run, Level, <<>>), <<>>)
    /\ UNCHANGED <<driving, stmt_depth, nAssigns>>
    /\ Untouched

\* An If or Elif that restores the list and the depth only when the body
\* does not raise (no try/finally).
ExitBranchNoFinally(kind, exc) ==
    /\ stack # <<>>
    /\ Top.kind = kind
    /\ stmt_if_cond' = IF exc THEN stmt_if_cond ELSE Append(stmt_if_cond, Top.cond)
    /\ stmt_if_bodies' = IF exc THEN stmt_if_bodies
                         ELSE Append(stmt_if_bodies, statements)
    /\ domain_depth' = IF exc THEN domain_depth ELSE domain_depth - 1
    /\ statements' = IF exc THEN statements ELSE Top.outer
    /\ stack' = Pop(stack)
    /\ last' = Outcome("Exit" \o kind, IF exc THEN "raised" ELSE Ok, NoArgs, <<>>,
                       NoFlushHistory)
    /\ g_if_scope' = IF exc THEN g_if_scope ELSE Append(g_if_scope, ParentScope)
    /\ g_chain' = LET g == Pop(g_chain) IN
                  IF exc THEN g
                  ELSE SetLevel(g, Len(g), Append(g[Len(g)],
                                   [cond |-> Top.cond, body |-> statements]))
    /\ g_run' = Pop(g_run)
    /\ UNCHANGED <<driving, stmt_depth, stmt_switch_test, stmt_switch_cases,
                   nScopes, nAssigns>>
    /\ Untouched

\* The part of If and Elif after the yield; exc: the body raised.
ExitBranch(kind, exc) ==
    /\ stack # <<>>
    /\ Top.kind = kind
    /\ stmt_if_cond' = IF exc THEN stmt_if_cond ELSE Append(stmt_if_cond, Top.cond)
    /\ stmt_if_bodies' = IF exc THEN stmt_if_bodies
                         ELSE Append(stmt_if_bodies, statements)
    /\ domain_depth' = domain_depth - 1
    /\ statements' = Top.outer
    /\ stack' = Pop(stack)
    /\ last' = Outcome("Exit" \o kind, IF exc THEN "raised" ELSE Ok, NoArgs, <<>>,
                       NoFlushHistory)
    /\ g_if_scope' = IF exc THEN g_if_scope ELSE Append(g_if_scope, ParentScope)
    /\ g_chain' = LET g == Pop(g_chain) IN
                  IF exc THEN g
                  ELSE SetLevel(g, Len(g), Append(g[Len(g)],
                                   [cond |-> Top.cond, body |-> statements]))
    /\ g_run' = Pop(g_run)
    /\ UNCHANGED <<driving, stmt_depth, stmt_switch_test, stmt_switch_cases,
                   nScopes, nAssigns>>
    /\ Untouched

ExitIf(exc) == ExitBranch("If", exc)

\* A call that raised before it changed anything.
Rejected(op, err, args) ==
    /\ last' = Outcome(op, err, args, <<>>, NoFlushHistory)
    /\ UNCHANGED <<driving, statements, stmt_depth, stmt_if_cond, stmt_if_bodies,
                   stmt_switch_test, stmt_switch_cases, domain_depth, stack,
                   nScopes, nAssigns, g_if_scope, g_chain, g_run>>
    /\ Untouched

\* Elif and Else up to the yield.
OpenBranch(kind, cond) ==
    /\ stack' = Append(stack, Frame(kind, nScopes + 1, statements,
                                    cond, NoCond, NoValue, NoValue, 0))
    /\ statements' = <<>>
    /\ domain_depth' = domain_depth + 1
    /\ nScopes' = nScopes + 1
    /\ last' = Outcome("Enter" \o kind, Ok, [NoArgs EXCEPT !.cond = cond], <<>>,
                       NoFlushHistory)
    /\ g_chain' = Append(g_chain, <<>>)
    /\ g_run' = Append(SetLevel(g_run, Level, <<>>), <<>>)
    /\ UNCHANGED <<driving, stmt_depth, stmt_if_cond, stmt_if_bodies,
                   stmt_switch_test, stmt_switch_cases, nAssigns, g_if_scope>>
    /\ Untouched

\* with m.Elif(cond): up to the yield
EnterElif(cond) ==
    /\ CanOpen
    /\ IF stmt_if_cond = <<>>
       THEN Rejected("EnterElif", "SyntaxError: Elif without preceding If",
                     [NoArgs EXCEPT !.cond = cond])
       ELSE OpenBranch("Elif", cond)

ExitElif(exc) == ExitBranch("Elif", exc)

\* with m.Else(): up to the yield
EnterElse ==
    /\ CanOpen
    /\ IF stmt_if_cond = <<>>
       THEN Rejected("EnterElse", "SyntaxError: Else without preceding If/Elif",
                     NoArgs)
       ELSE OpenBranch("Else", NoCond)

\* The part of Else after the yield, and the _flush that follows the try.
ExitElse(exc) ==
    /\ stack # <<>>
    /\ Top.kind = "Else"
    /\ LET bodies == IF exc THEN stmt_if_bodies
                     ELSE Append(stmt_if_bodies, statements)
           f == IF exc
                THEN NoFlush(stmt_if_cond, bodies, stmt_switch_test,
                             stmt_switch_cases)
                ELSE Flush(stmt_if_cond, bodies, stmt_switch_test,
                           stmt_switch_cases)
           g == Pop(g_chain)
       IN  /\ statements' = Top.outer \o f.emits
           /\ stmt_if_cond' = f.if_cond
           /\ stmt_if_bodies' = f.if_bodies
           /\ stmt_switch_test' = f.switch_test
           /\ stmt_switch_cases' = f.switch_cases
           /\ last' = Outcome("ExitElse", IF exc THEN "raised" ELSE Ok, NoArgs,
                              f.emits,
                              IF exc THEN NoFlushHistory
                              ELSE [flushed |-> TRUE,
                                    conds |-> stmt_if_cond, bodies |-> bodies,
                                    test |-> stmt_switch_test,
                                    cases |-> stmt_switch_cases,
                                    chain |-> Append(g[Len(g)],
                                        [cond |-> NoCond, body |-> statements]),
                                    from |-> Append(g_if_scope, ParentScope),
                                    into |-> ParentScope,
                                    run |-> <<>>])
           /\ g_if_scope' = IF exc THEN g_if_scope ELSE <<>>
           /\ g_chain' = IF exc THEN g ELSE SetLevel(g, Len(g), <<>>)
    /\ g_run' = Pop(g_run)
    /\ domain_depth' = domain_depth - 1
    /\ stack' = Pop(stack)
    /\ UNCHANGED <<driving, stmt_depth, nScopes, nAssigns>>
    /\ Untouched

\* -------------------------------------------------------------------- Case

\* The value of a Case scope: an omitted one stands for "-" * len(test).
CaseValue(test, value) ==
    IF value = NoValue THEN Rep("-", ValueLen(test)) ELSE value

\* A width check that lets every value pass.
AnyWidth(test, val) == FALSE

\* Whether the (string) value is not as wide as the test.
WidthMismatch(test, val) == ValueLen(test) # Len(val)

\* _ModuleBuilderCase.__enter__ (with Module.Case, which builds the handle)
EnterCase(test, value) ==
    /\ CanOpen
    /\ LET val    == CaseValue(test, value)
           differ == stmt_switch_test.key # ValueKey(test)
           f      == FlushIf(differ)
           args   == [NoArgs EXCEPT !.test = test, !.value = value]
       IN  IF WidthMismatch(test, val)
           THEN Rejected("EnterCase",
                         "SyntaxError: Case value must have the same width as test",
                         args)
           ELSE /\ stack' = Append(stack, Frame("Case", nScopes + 1,
                                                statements \o f.emits, NoCond, test,
                                                val, value, stmt_depth + 1))
                /\ statements' = <<>>
                /\ stmt_if_cond' = f.if_cond
                /\ stmt_if_bodies' = f.if_bodies
                /\ stmt_switch_test' =
                       IF differ THEN [key |-> ValueKey(test), value |-> test]
                       ELSE f.switch_test
                /\ stmt_switch_cases' = f.switch_cases
                /\ nScopes' = nScopes + 1
                /\ last' = Outcome("EnterCase", Ok, args, f.emits,
                                   FlushHistory(differ))
                /\ g_if_scope' = IF differ THEN <<>> ELSE g_if_scope
                /\ g_chain' = Append(AfterCall(differ, g_chain), <<>>)
                /\ g_run' = Append(
                       IF g_run[Level] # <<>>
                          /\ g_run[Level][1].key # ValueKey(test)
                       THEN SetLevel(g_run, Level, <<>>) ELSE g_run, <<>>)
                /\ UNCHANGED <<driving, stmt_depth, domain_depth, nAssigns>>
                /\ Untouched

\* _ModuleBuilderCase.__exit__
ExitCase ==
    /\ stack # <<>>
    /\ Top.kind = "Case"
    /\ stmt_switch_cases' = DictSet(stmt_switch_cases, Top.value, statements)
    /\ statements' = Top.outer
    /\ stack' = Pop(stack)
    /\ last' = Outcome("ExitCase", Ok, NoArgs, <<>>, NoFlushHistory)
    /\ g_chain' = Pop(g_chain)
    /\ g_run' = LET g == Pop(g_run) IN
                SetLevel(g, Len(g), Append(g[Len(g)],
                    [key |-> ValueKey(Top.test), test |-> Top.test,
                     value |-> Top.value, body |-> statements]))
    /\ UNCHANGED <<driving, stmt_depth, stmt_if_cond, stmt_if_bodies,
                   stmt_switch_test, domain_depth, nScopes, nAssigns, g_if_scope>>
    /\ Untouched

\* ----------------------------------------------------------- _add_statement

\* cd_human_name
cd_human_name(cd_name) == IF cd_name = NoDomain THEN "comb" ELSE cd_name

\* A loop over assign._lhs_signals() that records the domain of the latest
\* assignment and raises nothing.
DriveLoopLastWins(lhs, drv, cd_name) ==
    [driving |-> [s \in Signals |->
                     IF \E k \in DOMAIN lhs : lhs[k] = s THEN cd_name ELSE drv[s]],
     signal |-> NoSignal]

\* The loop over assign._lhs_signals(): the driver map after it, and the
\* signal it raised on (NoSignal if it ran through).
RECURSIVE DriveLoop(_, _, _)
DriveLoop(lhs, drv, cd_name) ==
    IF lhs = <<>> THEN [driving |-> drv, signal |-> NoSignal]
    ELSE LET signal == Head(lhs) IN
         IF drv[signal] = Absent
         THEN DriveLoop(Tail(lhs), [drv EXCEPT ![signal] = cd_name], cd_name)
         ELSE IF drv[signal] # cd_name
         THEN [driving |-> drv, signal |-> signal]
         ELSE DriveLoop(Tail(lhs), drv, cd_name)

\* A loop over Statement.wrap(assigns) that appends each assignment before it
\* looks at the driver map.
RECURSIVE AssignLoopAppendFirst(_, _, _, _)
AssignLoopAppendFirst(assigns, stmts, drv, cd_name) ==
    IF assigns = <<>>
    THEN [statements |-> stmts, driving |-> drv, err |-> Ok, signal |-> NoSignal]
    ELSE LET assign == Head(assigns) IN
         IF assign.type # "Assign"
         THEN [statements |-> stmts, driving |-> drv,
               err |-> "SyntaxError: Only assignments may be appended",
               signal |-> NoSignal]
         ELSE LET d == DriveLoop(assign.lhs, drv, cd_name) IN
              IF d.signal # NoSignal
              THEN [statements |-> Append(stmts, assign), driving |-> d.driving,
                    err |-> "SyntaxError: Driver-driver conflict",
                    signal |-> d.signal]
              ELSE AssignLoopAppendFirst(Tail(assigns), Append(stmts, assign),
                                         d.driving, cd_name)

\* The loop over Statement.wrap(assigns): the active list and the driver map
\* when it ends, and how it ended.
RECURSIVE AssignLoop(_, _, _, _)
AssignLoop(assigns, stmts, drv, cd_name) ==
    IF assigns = <<>>
    THEN [statements |-> stmts, driving |-> drv, err |-> Ok, signal |-> NoSignal]
    ELSE LET assign == Head(assigns) IN
         IF assign.type # "Assign"
         THEN [statements |-> stmts, driving |-> drv,
               err |-> "SyntaxError: Only assignments may be appended",
               signal |-> NoSignal]
         ELSE LET d == DriveLoop(assign.lhs, drv, cd_name) IN
              IF d.signal # NoSignal
              THEN [statements |-> stmts, driving |-> d.driving,
                    err |-> "SyntaxError: Driver-driver conflict",
                    signal |-> d.signal]
              ELSE AssignLoop(Tail(assigns), Append(stmts, assign), d.driving,
                              cd_name)

\* The depths of the handles at hand: m.d, and the d of every open Case.
HandleDepths ==
    {domain_depth}
    \cup {stack[i].depth : i \in {j \in DOMAIN stack : stack[j].kind = "Case"}}

\* What may be appended in one call: one or two new Assign objects, or a
\* statement that is no assignment.
AppendLists ==
    {<<Assign(nAssigns + 1, l)>> : l \in inputs.lhs}
    \cup {<<Assign(nAssigns + 1, l[1]), Assign(nAssigns + 2, l[2])>> :
             l \in IF inputs.lists THEN inputs.lhs \X inputs.lhs ELSE {}}
    \cup (IF inputs.others THEN {<<NotAssign>>} ELSE {})

\* The Assign objects of a list.
NewAssigns(stmts) == Cardinality({i \in DOMAIN stmts : stmts[i].type = "Assign"})

\* _add_statement(assigns, cd_name, depth), reached through d.<domain> +=
AddStatement(assigns, cd_name, depth) ==
    /\ fragment = NoFragment
    /\ LET doFlush == depth < stmt_depth
           f == FlushIf(doFlush)
           r == AssignLoop(assigns, statements \o f.emits, driving, cd_name)
       IN  /\ statements' = r.statements
           /\ driving' = r.driving
           /\ stmt_if_cond' = f.if_cond
           /\ stmt_if_bodies' = f.if_bodies
           /\ stmt_switch_test' = f.switch_test
           /\ stmt_switch_cases' = f.switch_cases
           /\ g_if_scope' = IF doFlush THEN <<>> ELSE g_if_scope
           /\ g_chain' = AfterCall(doFlush, g_chain)
           /\ g_run' = SetLevel(g_run, Level, <<>>)
           /\ last' = [Outcome("AddStatement", r.err,
                               [NoArgs EXCEPT !.stmts = assigns,
                                              !.cd_name = cd_name,
                                              !.depth = depth],
                               f.emits, FlushHistory(doFlush))
                       EXCEPT !.signal = r.signal,
                              !.cd_name = IF r.signal = NoSignal THEN ""
                                          ELSE cd_human_name(cd_name),
                              !.cd_curr = IF r.signal = NoSignal THEN ""
                                          ELSE cd_human_name(driving[r.signal])]
    /\ stmt_depth' = depth
    /\ UNCHANGED <<domain_depth, stack, nScopes>>
    /\ Untouched

\* d.<domain> += stmts
AppendTo ==
    \E stmts \in AppendLists, cd_name \in inputs.domains, depth \in HandleDepths :
        /\ nAssigns + NewAssigns(stmts) <= inputs.assigns
        /\ nAssigns' = nAssigns + NewAssigns(stmts)
        /\ AddStatement(stmts, cd_name, depth)

\* ------------------------------------------------- _ModuleBuilderDomains

\* m.d.<name> = value (or m.d[name] = value), name the name of a domain
SetDomain ==
    \E name \in SlotNames, value \in SlotValues :
        /\ fragment = NoFragment
        /\ inputs.slots
        /\ Rejected("SetDomain",
                    IF ~value.handle
                    THEN "AttributeError: Cannot assign d attribute"
                    ELSE Ok,
                    [NoArgs EXCEPT !.slot = name, !.put = value])

\* ----------------------------------------------------------- _add_submodule

\* A hasattr check that every value passes.
AnyHasGetFragment(submodule) == TRUE

\* hasattr(submodule, "get_fragment")
HasGetFragment(submodule) == submodule \in Submodules

\* The loop of __iadd__ over the submodules, each handed to _add_submodule
\* with the name given: the registry after it, and whether it raised.
RECURSIVE AddLoop(_, _, _)
AddLoop(subs, name, registry) ==
    IF subs = <<>> THEN [submodules |-> registry, err |-> Ok]
    ELSE IF ~HasGetFragment(Head(subs))
    THEN [submodules |-> registry,
          err |-> "TypeError: does not implement .get_fragment()"]
    ELSE AddLoop(Tail(subs), name,
                 Append(registry, [submodule |-> Head(subs), name |-> name]))

\* A call on m.submodules: the values are registered one by one.
Register(op, subs, name) ==
    /\ fragment = NoFragment
    /\ Len(submodules) + Len(subs) <= inputs.submodules
    /\ LET r == AddLoop(subs, name, submodules) IN
       /\ submodules' = r.submodules
       /\ last' = [Outcome(op, r.err, NoArgs, <<>>, NoFlushHistory)
                   EXCEPT !.subs = subs, !.name = name,
                          !.added = Len(r.submodules) - Len(submodules)]
    /\ UNCHANGED <<driving, statements, stmt_depth, stmt_if_cond, stmt_if_bodies,
                   stmt_switch_test, stmt_switch_cases, domain_depth, stack,
                   fragment, nScopes, nAssigns, g_if_scope, g_chain, g_run,
                   inputs>>

\* m.submodules.<name> = submodule
SetSubmodule ==
    \E sub \in Submodules \cup NotSubmodules, name \in SubmoduleNames :
        Register("SetSubmodule", <<sub>>, name)

\* m.submodules += submodules
AddSubmodules ==
    \E list \in {<<x>> : x \in Submodules \cup NotSubmodules}
                 \cup {<<x, y>> : x \in Submodules,
                                  y \in Submodules \cup NotSubmodules} :
        Register("AddSubmodules", list, NoName)

\* -------------------------------------------------------------------- lower

\* submodule.get_fragment(platform)
GetFragment(submodule) == [fragment_of |-> submodule]

\* A loop over the registry that attaches every subfragment anonymously.
SubfragmentsUnnamed(registry) ==
    [i \in DOMAIN registry |->
        [fragment |-> GetFragment(registry[i].submodule), name |-> NoName]]

\* The loop of lower over the registry: fragment.add_subfragment(...) each.
Subfragments(registry) ==
    [i \in DOMAIN registry |->
        [fragment |-> GetFragment(registry[i].submodule),
         name |-> registry[i].name]]

\* A lower that assembles the fragment without the _flush.
LowerWithoutFlush ==
    /\ fragment = NoFragment
    /\ stack = <<>>
    /\ fragment' = [built |-> TRUE,
                    subfragments |-> Subfragments(submodules),
                    statements |-> statements,
                    drivers |-> {<<s, driving[s]>> :
                                    s \in {x \in Signals : driving[x] # Absent}}]
    /\ last' = Outcome("Lower", Ok, NoArgs, <<>>, FlushHistory(TRUE))
    /\ UNCHANGED <<submodules, driving, statements, stmt_depth, stmt_if_cond,
                   stmt_if_bodies, stmt_switch_test, stmt_switch_cases,
                   domain_depth, stack, nScopes, nAssigns, g_if_scope, g_chain,
                   g_run, inputs>>

\* Module.lower: the final _flush and the fragment handed back.
Lower ==
    /\ fragment = NoFragment
    /\ stack = <<>>
    /\ LET f == FlushIf(TRUE) IN
       /\ statements' = statements \o f.emits
       /\ stmt_if_cond' = f.if_cond
       /\ stmt_if_bodies' = f.if_bodies
       /\ stmt_switch_test' = f.switch_test
       /\ stmt_switch_cases' = f.switch_cases
       /\ fragment' = [built |-> TRUE,
                       subfragments |-> Subfragments(submodules),
                       statements |-> statements \o f.emits,
                       drivers |-> {<<s, driving[s]>> :
                                       s \in {x \in Signals : driving[x] # Absent}}]
       /\ last' = Outcome("Lower", Ok, NoArgs, f.emits, FlushHistory(TRUE))
    /\ g_if_scope' = <<>>
    /\ g_chain' = SetLevel(g_chain, Level, <<>>)
    /\ g_run' = SetLevel(g_run, Level, <<>>)
    /\ UNCHANGED <<submodules, driving, stmt_depth, domain_depth, stack, nScopes,
                   nAssigns, inputs>>

\* Whether the body of a scope ends by raising.
Raises == IF inputs.abort THEN BOOLEAN ELSE {FALSE}

Next ==
    \/ \E c \in inputs.conds : EnterIf(c)
    \/ \E e \in Raises : ExitIf(e)
    \/ \E c \in inputs.conds : EnterElif(c)
    \/ \E e \in Raises : ExitElif(e)
    \/ EnterElse
    \/ \E e \in Raises : ExitElse(e)
    \/ \E t \in inputs.tests, v \in inputs.values : EnterCase(t, v)
    \/ ExitCase
    \/ AppendTo
    \/ Lower

\* Runs over If, Elif and Else.
Spec == Init /\ [][Next]_vars

\* The calls of a run that opens no Elif and no Else.
NextCase ==
    \/ \E c \in inputs.conds : EnterIf(c)
    \/ \E e \in Raises : ExitIf(e)
    \/ \E t \in inputs.tests, v \in inputs.values : EnterCase(t, v)
    \/ ExitCase
    \/ AppendTo
    \/ Lower

\* Runs over Case.
SpecCase == InitCase /\ [][NextCase]_vars

\* The calls of a run that opens If scopes only.
NextDrive ==
    \/ \E c \in inputs.conds : EnterIf(c)
    \/ \E e \in Raises : ExitIf(e)
    \/ AppendTo
    \/ SetDomain
    \/ Lower

\* Runs over the driver map.
SpecDrive == InitDrive /\ [][NextDrive]_vars

\* The calls of a run over the submodules.
NextSub ==
    \/ SetSubmodule
    \/ AddSubmodules
    \/ Lower

\* Runs over the submodules.
SpecSub == InitSub /\ [][NextSub]_vars

\* Runs in which bodies may raise.
SpecAbort == InitAbort /\ [][Next]_vars

\* ------------------------------------------------------------------ claims

\* The pattern of length k that is "1" at the bit of the i-th condition (the
\* first condition at bit 0, the rightmost character) and "-" elsewhere.
OneAt(i, k) == [j \in 1..k |-> IF j = k - i + 1 THEN "1" ELSE "-"]

\* The pattern of k wildcards.
AllWildcard(k) == [j \in 1..k |-> "-"]

\* The branches of a chain that have a condition (all but a final Else).
CondCount(chain) == Cardinality({i \in DOMAIN chain : chain[i].cond # NoCond})

\* If, Elif, ..., Elif and at most one Else, which comes last.
WellFormed(chain) ==
    /\ chain # <<>>
    /\ \A i \in DOMAIN chain : chain[i].cond = NoCond => i = Len(chain) /\ i > 1

\* The pattern map the chain is to be lowered to.
ExpectedCases(chain) ==
    LET k == CondCount(chain) IN
    [i \in DOMAIN chain |->
        [key |-> IF chain[i].cond # NoCond THEN OneAt(i, k) ELSE AllWildcard(k),
         val |-> chain[i].body]]

\* test is the concatenation of the chain's conditions, the first at bit 0
\* (each as it is or as its nonzero test).
ConcatOf(test, chain) ==
    /\ test.op = "Cat"
    /\ Len(test.args) = CondCount(chain)
    /\ \A i \in DOMAIN test.args :
           test.args[i] = chain[i].cond \/ test.args[i] = Bool(chain[i].cond)

\* The Switch statements among those emitted that lower a conditional chain.
IfSwitches(emitted) == {i \in DOMAIN emitted : emitted[i].test.op = "Cat"}

\* C1: whenever _flush runs in a scope, the conditional chain whose branches
\* were closed in that scope (If(c1), Elif(c2), ..., an optional Else) is
\* lowered to exactly one Switch appended there: its test is the concatenation
\* of c1..ck, its pattern map lists OneAt(i, k) -> b_i in order, then the
\* all-wildcard pattern -> the Else body; no other chain is lowered there.
C1_ChainLoweredAsOpened ==
    LET h == last.history
        e == last.emitted
    IN  h.flushed =>
            IF h.chain = <<>> THEN IfSwitches(e) = {}
            ELSE /\ WellFormed(h.chain)
                 /\ IfSwitches(e) = {1}
                 /\ ConcatOf(e[1].test, h.chain)
                 /\ e[1].cases = ExpectedCases(h.chain)

\* C2: the branches of the pending conditional chain were all opened in one
\* scope, and a chain is lowered into the list of the scope its branches were
\* opened in: a chain closed inside a branch body is no branch of the
\* enclosing chain, is lowered inside that body, and the earlier branches of
\* the enclosing chain are not lowered into a later branch's body.
C2_NestedChainsStayInBody ==
    /\ \A i, j \in DOMAIN g_if_scope : g_if_scope[i] = g_if_scope[j]
    /\ \A i \in DOMAIN last.history.from :
           last.history.from[i] = last.history.into

\* Whether list ends with tail.
EndsWith(list, tail) ==
    /\ Len(tail) <= Len(list)
    /\ SubSeq(list, Len(list) - Len(tail) + 1, Len(list)) = tail

\* Whether sw is one Switch over the conditions conds, in order from bit 0,
\* that lists the bodies in order.
LowersPending(sw, conds, bodies) ==
    /\ sw.type = "Switch"
    /\ sw.test.op = "Cat"
    /\ Len(sw.test.args) = Len(conds)
    /\ \A i \in DOMAIN conds :
           sw.test.args[i] = conds[i] \/ sw.test.args[i] = Bool(conds[i])
    /\ Len(sw.cases) = Len(bodies)
    /\ \A i \in DOMAIN bodies : sw.cases[i].val = bodies[i]

\* C5: right after an If is opened the pending conditional chain is empty, so
\* the new chain holds no condition and no body of an earlier one; and if a
\* chain was pending, it was lowered to one Switch over its conditions and
\* bodies, which the enclosing list (the list the new If scope will restore)
\* now ends with.
C5_SecondIfFlushesFirst ==
    last.op = "EnterIf" =>
        /\ stmt_if_cond = <<>>
        /\ stmt_if_bodies = <<>>
        /\ LET h == last.history IN
           h.conds # <<>> =>
               /\ IfSwitches(last.emitted) = {1}
               /\ LowersPending(last.emitted[1], h.conds, h.bodies)
               /\ EndsWith(Top.outer, last.emitted)

\* C5 witness: a second If opened in the module with the chain of a first If
\* and its Elif pending there.
C5_Witness ==
    /\ last.op = "EnterIf"
    /\ Len(last.history.conds) = 2
    /\ last.history.from = <<0, 0>>
    /\ last.history.into = 0

\* C6: an Elif or Else opened with no conditional chain pending raises the
\* syntax error and changes nothing; and an Elif or Else is accepted only when
\* branches of an If chain were closed in the very scope it is opened in.
C6_ElifElseNeedOpenChain ==
    [][(last'.op \in {"EnterElif", "EnterElse"} /\ last' # last) =>
          /\ stmt_if_cond = <<>> =>
                /\ last'.err \in {"SyntaxError: Elif without preceding If",
                                  "SyntaxError: Else without preceding If/Elif"}
                /\ UNCHANGED <<statements, domain_depth, driving, stmt_depth,
                               stmt_if_cond, stmt_if_bodies, stmt_switch_test,
                               stmt_switch_cases, stack>>
          /\ last'.err = Ok =>
                /\ g_chain[Level] # <<>>
                /\ \A i \in DOMAIN g_if_scope : g_if_scope[i] = CurScope
      ]_vars

\* C7: right after an Else scope closes no conditional chain is pending, and
\* the active list ends with the Switch the chain was lowered to, whose last
\* pattern is all wildcards and maps to the Else body; an Elif or Else opened
\* next is rejected.
C7_ElseClosesChain ==
    /\ [](last.op = "ExitElse" /\ last.err = Ok =>
            /\ stmt_if_cond = <<>>
            /\ stmt_if_bodies = <<>>
            /\ IfSwitches(last.emitted) = {1}
            /\ EndsWith(statements, last.emitted)
            /\ LET sw == last.emitted[1]
                   n  == Len(sw.cases)
               IN  /\ n > 0
                   /\ sw.cases[n].key = AllWildcard(Len(sw.test.args))
                   /\ sw.cases[n].val =
                          last.history.bodies[Len(last.history.bodies)])
    /\ [][(last.op = "ExitElse" /\ last.err = Ok
           /\ last'.op \in {"EnterElif", "EnterElse"}) => last'.err # Ok]_vars

\* The ids of the Assign objects in a statement list, bodies of Switch
\* statements included.
RECURSIVE AssignIds(_)
AssignIds(list) ==
    IF list = <<>> THEN {}
    ELSE LET st == Head(list) IN
         (IF st.type = "Assign" THEN {st.id}
          ELSE IF st.type = "Switch"
          THEN UNION {AssignIds(st.cases[i].val) : i \in DOMAIN st.cases}
          ELSE {})
         \cup AssignIds(Tail(list))

\* The ids of the Assign objects in any statement list the builder holds.
AllAssignIds ==
    AssignIds(statements)
    \cup UNION {AssignIds(stmt_if_bodies[i]) : i \in DOMAIN stmt_if_bodies}
    \cup UNION {AssignIds(stmt_switch_cases[i].val) : i \in DOMAIN stmt_switch_cases}
    \cup UNION {AssignIds(stack[i].outer) : i \in DOMAIN stack}
    \cup (IF fragment.built THEN AssignIds(fragment.statements) ELSE {})

\* Whether an assignment through cd assigns a signal another domain drives.
Conflicts(assign, cd) ==
    /\ assign.type = "Assign"
    /\ \E k \in DOMAIN assign.lhs : driving[assign.lhs[k]] \notin {Absent, cd}

HumanName(cd) == IF cd = NoDomain THEN "comb" ELSE cd

\* C3: an append of assignments through a domain B, one of which assigns a
\* signal recorded under another domain A, raises the driver conflict in that
\* very call (no fragment is built); the error names a signal of the call
\* recorded under another domain, B and that domain ("comb" for the unclocked
\* one); no recorded entry changes; and no conflicting assignment of the call
\* is in any statement list afterwards.
C3_ConflictRaisedAtAppend ==
    [][last'.op = "AddStatement" =>
          LET a == last'.args
              B == a.cd_name
          IN  ((\A i \in DOMAIN a.stmts : a.stmts[i].type = "Assign")
               /\ (\E i \in DOMAIN a.stmts : Conflicts(a.stmts[i], B))) =>
                  /\ last'.err = "SyntaxError: Driver-driver conflict"
                  /\ fragment' = NoFragment
                  /\ last'.signal \in Signals
                  /\ \E i \in DOMAIN a.stmts : \E k \in DOMAIN a.stmts[i].lhs :
                         a.stmts[i].lhs[k] = last'.signal
                  /\ driving[last'.signal] \notin {Absent, B}
                  /\ last'.cd_name = HumanName(B)
                  /\ last'.cd_curr = HumanName(driving[last'.signal])
                  /\ \A s \in Signals : driving[s] # Absent => driving'[s] = driving[s]
                  /\ \A i \in DOMAIN a.stmts :
                         Conflicts(a.stmts[i], B) => a.stmts[i].id \notin AllAssignIds'
      ]_vars

\* C3 witness: a signal driven from the unclocked domain was assigned through
\* d.sync, and the call raised the conflict naming both.
C3_Witness ==
    /\ last.op = "AddStatement"
    /\ last.err = "SyntaxError: Driver-driver conflict"
    /\ last.cd_name = "sync"
    /\ last.cd_curr = "comb"
    /\ driving[last.signal] = NoDomain

\* Whether some assignment of the list assigns the signal.
Assigns(stmts, s) ==
    \E i \in DOMAIN stmts :
        /\ stmts[i].type = "Assign"
        /\ \E k \in DOMAIN stmts[i].lhs : stmts[i].lhs[k] = s

\* C4: a driver-map entry, once recorded, is never changed or removed by any
\* call; an entry is recorded only by an append that assigns the signal, under
\* the domain of that append, whether or not the append then goes through; a
\* conflict is raised on a signal only if it is recorded under another domain
\* than the one of the append; and the fragment is handed exactly the recorded
\* (signal, domain) pairs.
C4_FirstObservedAssignmentFixesDomain ==
    /\ [][\A s \in Signals :
            /\ driving[s] # Absent => driving'[s] = driving[s]
            /\ (driving[s] = Absent /\ driving'[s] # Absent) =>
                   /\ last'.op = "AddStatement"
                   /\ Assigns(last'.args.stmts, s)
                   /\ driving'[s] = last'.args.cd_name
            /\ (last'.op = "AddStatement" /\ last'.signal = s) =>
                   /\ driving[s] \notin {Absent, last'.args.cd_name}
                   /\ Assigns(last'.args.stmts, s)
         ]_vars
    /\ [](fragment.built =>
             fragment.drivers =
                 {<<s, driving[s]>> : s \in {x \in Signals : driving[x] # Absent}})

\* C4 as stated: an entry is recorded only by an assignment that was accepted
\* (that is in the active list after the append).
C4_FirstAcceptedAssignmentFixesDomain ==
    [][\A s \in Signals :
          (driving[s] = Absent /\ driving'[s] # Absent) =>
              \E i \in DOMAIN last'.args.stmts :
                  /\ Assigns(<<last'.args.stmts[i]>>, s)
                  /\ last'.args.stmts[i].id \in AssignIds(statements')
      ]_vars

\* C4 witness: a fragment built after d.comb drove s1 and an assignment to s2
\* and s1 through d.sync was refused: it holds the one accepted assignment and
\* is handed s2 under sync all the same.
C4_Witness ==
    /\ fragment.built
    /\ fragment.drivers = {<<"s1", NoDomain>>, <<"s2", "sync">>}
    /\ Cardinality(AssignIds(fragment.statements)) = 1

\* The Switch statements over a Case test among those a _flush appended.
CaseSwitches(emitted) ==
    {i \in DOMAIN emitted : emitted[i].type = "Switch" /\ emitted[i].test.op # "Cat"}

\* C8: when Case scopes with one structural key and pairwise different
\* patterns were closed in a row in a scope, the next _flush in that scope
\* appends exactly one Switch over that test, whose pattern map lists each
\* scope's pattern with its body in closing order.
C8_EqualTestsShareOneSwitch ==
    LET h == last.history
        e == last.emitted
    IN  (/\ h.flushed
         /\ h.run # <<>>
         /\ \A i, j \in DOMAIN h.run :
                /\ h.run[i].key = h.run[j].key
                /\ i # j => h.run[i].value # h.run[j].value) =>
            /\ Cardinality(CaseSwitches(e)) = 1
            /\ \A i \in CaseSwitches(e) :
                   /\ ValueKey(e[i].test) = h.run[1].key
                   /\ e[i].cases = [j \in DOMAIN h.run |->
                                       [key |-> h.run[j].value,
                                        val |-> h.run[j].body]]

C10_CaseWidthChecked ==
    /\ [][last'.op = "EnterCase" =>
             LET t == last'.args.test
                 v == last'.args.value
             IN  /\ (v # NoValue /\ Len(v) # ValueLen(t)) =>
                        /\ last'.err =
                             "SyntaxError: Case value must have the same width as test"
                        /\ UNCHANGED <<submodules, driving, statements, stmt_depth,
                                       stmt_if_cond, stmt_if_bodies,
                                       stmt_switch_test, stmt_switch_cases,
                                       domain_depth, stack, fragment>>
                 /\ v = NoValue =>
                        /\ last'.err = Ok
                        /\ Len(stack') = Len(stack) + 1
                        /\ stack'[Len(stack')].given = NoValue
                        /\ stack'[Len(stack')].value = AllWildcard(ValueLen(t))
         ]_vars
    /\ [][(last'.op = "ExitCase" /\ Top.given = NoValue) =>
             \E i \in DOMAIN stmt_switch_cases' :
                 stmt_switch_cases'[i] =
                     [key |-> AllWildcard(ValueLen(Top.test)), val |-> statements]
         ]_vars

\* C10 witness: a Case scope on the two-bit test was refused the one-character
\* pattern while a case chain was pending.
C10_Witness ==
    /\ last.op = "EnterCase"
    /\ last.err = "SyntaxError: Case value must have the same width as test"
    /\ last.args.test = TestU
    /\ stmt_switch_test # NoTest
    /\ stmt_switch_cases # <<>>

\* C11: the fragment lower returns has one child per registered submodule, in
\* registration order: the child is the fragment of that submodule, under the
\* name it was registered with, or under no name if it was registered by +=.
C11_ChildrenAreRegistrations ==
    /\ [](fragment.built =>
             /\ Len(fragment.subfragments) = Len(submodules)
             /\ \A i \in DOMAIN submodules :
                    /\ fragment.subfragments[i].fragment =
                           GetFragment(submodules[i].submodule)
                    /\ fragment.subfragments[i].name = submodules[i].name)
    /\ [][(last'.op \in {"SetSubmodule", "AddSubmodules"} /\ last'.err = Ok) =>
             /\ Len(submodules') = Len(submodules) + Len(last'.subs)
             /\ SubSeq(submodules', 1, Len(submodules)) = submodules
             /\ \A k \in DOMAIN last'.subs :
                    submodules'[Len(submodules) + k] =
                        [submodule |-> last'.subs[k], name |-> last'.name]
         ]_vars

\* C11 witness: a fragment with three children, the first and the third
\* named, the second anonymous.
C11_Witness ==
    /\ fragment.built
    /\ Len(fragment.subfragments) = 3
    /\ fragment.subfragments[1].name = "n1"
    /\ fragment.subfragments[2].name = NoName
    /\ fragment.subfragments[3].name = "n2"
    /\ fragment.subfragments[1].fragment # fragment.subfragments[3].fragment

\* C12: a value without get_fragment is never in the registry nor among the
\* children of the fragment; a call that reaches such a value raises the
\* TypeError itself, before lower, and registers neither that value nor any
\* value after it: the registry grows only by the values with get_fragment
\* that came before it in the same call (none for m.submodules.<name> = value).
C12_InvalidSubmoduleRejected ==
    /\ [](/\ \A i \in DOMAIN submodules : submodules[i].submodule \in Submodules
          /\ fragment.built =>
                \A i \in DOMAIN fragment.subfragments :
                    \A x \in NotSubmodules :
                        fragment.subfragments[i].fragment # GetFragment(x))
    /\ [][(last'.op \in {"SetSubmodule", "AddSubmodules"}
           /\ \E k \in DOMAIN last'.subs : last'.subs[k] \in NotSubmodules) =>
             LET bad == CHOOSE k \in DOMAIN last'.subs :
                           /\ last'.subs[k] \in NotSubmodules
                           /\ \A j \in 1..(k - 1) : last'.subs[j] \in Submodules
             IN  /\ last'.err = "TypeError: does not implement .get_fragment()"
                 /\ fragment' = NoFragment
                 /\ Len(submodules') = Len(submodules) + bad - 1
                 /\ SubSeq(submodules', 1, Len(submodules)) = submodules
                 /\ bad = 1 => submodules' = submodules
         ]_vars

\* C12 as stated: a call on m.submodules that raises leaves the registry as
\* it was.
C12_FailedCallChangesNothing ==
    [][(last'.op \in {"SetSubmodule", "AddSubmodules"} /\ last'.err # Ok) =>
          submodules' = submodules]_vars

\* C12 witness: m.submodules += [a, x] raised on x after it registered a.
C12_Witness ==
    /\ last.op = "AddSubmodules"
    /\ last.subs = <<"a", "x">>
    /\ last.err = "TypeError: does not implement .get_fragment()"
    /\ last.added = 1
    /\ submodules[Len(submodules)].submodule = "a"

\* C13: m.d.<name> = value raises for every value, a handle of another domain
\* included, and changes no statement list, driver map or pending state.
C13_DomainSubstitutionRejected ==
    [][last'.op = "SetDomain" =>
          /\ last'.err # Ok
          /\ UNCHANGED <<statements, stack, driving, stmt_if_cond, stmt_if_bodies,
                         stmt_switch_test, stmt_switch_cases>>
      ]_vars

\* C14: when a _flush lowers a pending conditional chain, the test of the
\* Switch is the concatenation of one value per condition, in order: the
\* condition itself if it is one bit wide, its nonzero test if it is wider;
\* each of these is one bit wide, and the test is as wide as the chain has
\* conditions.
C14_WideConditionsReduced ==
    LET h == last.history
        e == last.emitted
    IN  (h.flushed /\ h.conds # <<>>) =>
            /\ IfSwitches(e) = {1}
            /\ e[1].test.op = "Cat"
            /\ Len(e[1].test.args) = Len(h.conds)
            /\ \A i \in DOMAIN h.conds :
                   /\ e[1].test.args[i] =
                          IF h.conds[i].width > 1 THEN Bool(h.conds[i])
                          ELSE h.conds[i]
                   /\ ValueLen(e[1].test.args[i]) = 1
            /\ ValueLen(e[1].test) = Len(h.conds)

\* C14 witness: a chain with a two-bit and a one-bit condition was lowered.
C14_Witness ==
    /\ last.history.flushed
    /\ Len(last.history.conds) = 2
    /\ last.history.conds[1].width = 2
    /\ last.history.conds[2].width = 1
    /\ IfSwitches(last.emitted) = {1}

\* C15: an accepted append through m.d in a scope where branches of a
\* conditional chain, or Case scopes, were closed and not lowered since makes
\* _flush lower them first: the active list grows by the chain's Switch
\* followed by the appended assignments.
C15_AppendFlushesClosedChain ==
    [][(last'.op = "AddStatement" /\ last'.err = Ok
        /\ last'.args.depth = domain_depth) =>
          /\ g_chain[Level] # <<>> =>
                /\ IfSwitches(last'.emitted) # {}
                /\ statements' = (statements \o last'.emitted) \o last'.args.stmts
          /\ g_run[Level] # <<>> =>
                /\ CaseSwitches(last'.emitted) # {}
                /\ statements' = (statements \o last'.emitted) \o last'.args.stmts
      ]_vars

\* C16: right after lower nothing is pending, and the statements of the
\* fragment are the active list, which ends with what the _flush of lower
\* appended: one Switch over the conditions and bodies of the conditional chain
\* that was pending, if any, and one Switch over the test with the pattern map
\* of the case chain that was pending, if any.
C16_LowerFlushes ==
    last.op = "Lower" =>
        LET h == last.history
            e == last.emitted
        IN  /\ fragment.built
            /\ stmt_if_cond = <<>>
            /\ stmt_if_bodies = <<>>
            /\ stmt_switch_test = NoTest
            /\ stmt_switch_cases = <<>>
            /\ fragment.statements = statements
            /\ EndsWith(fragment.statements, e)
            /\ h.conds # <<>> =>
                   /\ IfSwitches(e) = {1}
                   /\ LowersPending(e[1], h.conds, h.bodies)
            /\ h.test # NoTest =>
                   /\ CaseSwitches(e) = {Len(e)}
                   /\ e[Len(e)] = Switch(h.test.value, h.cases)

\* C16 witness: lower found both a conditional chain and a case chain with a
\* recorded pattern pending.
C16_Witness ==
    /\ last.op = "Lower"
    /\ last.history.conds # <<>>
    /\ last.history.test # NoTest
    /\ last.history.cases # <<>>
    /\ Len(last.emitted) = 2

\* C17: a conditional chain and a case chain are never pending together.
C17_OneChainPending ==
    ~(stmt_if_cond # <<>> /\ stmt_switch_test # NoTest)

\* C18: in every Switch a _flush appends, each pattern is as long as the test
\* is wide.
C18_PatternsFitTest ==
    \A i \in DOMAIN last.emitted :
        last.emitted[i].type = "Switch" =>
            \A j \in DOMAIN last.emitted[i].cases :
                Len(last.emitted[i].cases[j].key) = ValueLen(last.emitted[i].test)

\* How often the Assign object id occurs in a statement list, bodies of Switch
\* statements included.
RECURSIVE Occurrences(_, _), OccurrencesInCases(_, _)
Occurrences(id, list) ==
    IF list = <<>> THEN 0
    ELSE LET st == Head(list) IN
         (IF st.type = "Assign" THEN (IF st.id = id THEN 1 ELSE 0)
          ELSE IF st.type = "Switch" THEN OccurrencesInCases(id, st.cases)
          ELSE 0)
         + Occurrences(id, Tail(list))

OccurrencesInCases(id, cases) ==
    IF cases = <<>> THEN 0
    ELSE Occurrences(id, Head(cases).val) + OccurrencesInCases(id, Tail(cases))

\* C19: in a run where every append is accepted (one domain, assignments
\* only), each Assign object appended occurs exactly once in the statements of
\* the fragment lower returns.
C19_NothingLostOrDuplicated ==
    fragment.built =>
        \A id \in 1..nAssigns : Occurrences(id, fragment.statements) = 1

\* The scopes open now that raised the depth of m.d.
OpenBranches == {i \in DOMAIN stack : stack[i].kind \in {"If", "Elif", "Else"}}

\* C20: the depth of m.d is the number of If, Elif and Else scopes open (so it
\* is 0 when none is open and never negative); opening a scope saves the
\* active list and leaves the scopes around it as they are; closing a scope,
\* whether its body raised or not, takes it off, sets the depth back by what
\* opening it added (nothing for a Case) and makes the saved list the active
\* one again, to which closing an Else whose body did not raise then appends
\* what its _flush lowers.
C20_ScopesBalanced ==
    /\ [](/\ domain_depth = Cardinality(OpenBranches)
          /\ domain_depth >= 0
          /\ stack = <<>> => domain_depth = 0)
    /\ [][(last'.op \in {"EnterIf", "EnterElif", "EnterElse", "EnterCase"}
           /\ last'.err = Ok) =>
             /\ Len(stack') = Len(stack) + 1
             /\ Pop(stack') = stack
             /\ stack'[Len(stack')].outer = statements \o last'.emitted
             /\ domain_depth' =
                    domain_depth + (IF last'.op = "EnterCase" THEN 0 ELSE 1)
         ]_vars
    /\ [][last'.op \in {"ExitIf", "ExitElif", "ExitElse", "ExitCase"} =>
             /\ stack # <<>>
             /\ stack' = Pop(stack)
             /\ domain_depth' =
                    domain_depth - (IF last'.op = "ExitCase" THEN 0 ELSE 1)
             /\ statements' =
                    IF last'.op = "ExitElse" /\ last'.err = Ok
                    THEN Top.outer \o last'.emitted
                    ELSE Top.outer
         ]_vars

\* C20 witness: the body of an If opened inside an Else raised after an
\* assignment was appended in it, and the Else body is the active list again.
C20_Witness ==
    /\ last.op = "ExitIf"
    /\ last.err = "raised"
    /\ nAssigns = 1
    /\ AssignIds(statements) = {}
    /\ Len(stack) = 1
    /\ Top.kind = "Else"
    /\ domain_depth = 1

====
